---- MODULE Spec2Model ----
(***************************************************************************)
(* State-machine model of the birthday bot: main.py (daily run and command *)
(* handling), send_birthday_list.py (manual list sender) and the CSV row   *)
(* parser of fetch_birthdays.                                              *)
(*                                                                         *)
(* A date is a record [year, month, day]; a birthday entry as returned by  *)
(* fetch_birthdays is a record [bday, nameLen] (the name is kept by its    *)
(* length, the only thing the digest arithmetic reads; an entry's identity *)
(* is its position in the CSV).  Text is a sequence of one-character       *)
(* strings.                                                                *)
(***************************************************************************)
EXTENDS Integers, Sequences, FiniteSets, TLC

VARIABLES
    prog,           \* "main" (main.py), "manual" (send_birthday_list.py), "parse" (fetch_birthdays rows)
    pc,             \* position in the running script
    utc,            \* the instant datetime.now(timezone.utc): [date, hour]
    today,          \* the variable today of main / manual main
    command,        \* result of check_for_commands: "none", "start", "birthdays"
    birthdays,      \* the list returned by fetch_birthdays
    i,              \* index of the reminder loop (1-based)
    reminders_sent, \* the counter reminders_sent of main
    calls,          \* every send_message call so far, in order, with its outcome
    log,            \* what was printed about failures, in order
    outcome,        \* "running", "returned", or the uncaught exception that ended the run
    occ,            \* per record the reminder loop has handled: the next_bday and delta it printed
    rows,           \* CSV rows still to be parsed by fetch_birthdays
    parsed,         \* per row already parsed: the date appended, or why the row was skipped
    updates,        \* the result list of Telegram's getUpdates for this run
    ages            \* the call of calculate_age / is_milestone_age made on its own: arguments and results

vars == <<prog, pc, utc, today, command, birthdays, i, reminders_sent, calls, log,
          outcome, occ, rows, parsed, updates, ages>>

(***************************************************************************)
(* Bounds of the model.                                                    *)
(***************************************************************************)
MaxRecords == 3

MaxRows == 2

(***************************************************************************)
(* Calendar arithmetic of datetime.date, as the scripts use it.            *)
(***************************************************************************)
Date(y, m, d) == [year |-> y, month |-> m, day |-> d]

IsLeap(y) == (y % 4 = 0 /\ y % 100 # 0) \/ y % 400 = 0

DaysInMonth(y, m) ==
    IF m = 2 THEN (IF IsLeap(y) THEN 29 ELSE 28)
    ELSE IF m \in {4, 6, 9, 11} THEN 30 ELSE 31

\* What the date/datetime constructor accepts; anything else is a ValueError.
ValidDate(y, m, d) ==
    /\ y \in 1..9999
    /\ m \in 1..12
    /\ d \in 1..DaysInMonth(y, m)

DaysBeforeYear(y) ==
    LET p == y - 1 IN p * 365 + (p \div 4) - (p \div 100) + (p \div 400)

DaysBeforeMonth(y, m) ==
    <<0, 31, 59, 90, 120, 151, 181, 212, 243, 273, 304, 334>>[m]
        + (IF m > 2 /\ IsLeap(y) THEN 1 ELSE 0)

\* date.toordinal(): 0001-01-01 is day 1.
ToOrdinal(dt) == DaysBeforeYear(dt.year) + DaysBeforeMonth(dt.year, dt.month) + dt.day

\* date.fromordinal(n), the inverse of toordinal.
FromOrdinal(n) ==
    LET y0 == (n * 400) \div 146097 + 1
        y  == IF DaysBeforeYear(y0) >= n THEN y0 - 1
              ELSE IF DaysBeforeYear(y0 + 1) < n THEN y0 + 1 ELSE y0
        r  == n - DaysBeforeYear(y)
        m  == CHOOSE k \in 1..12 :
                  /\ DaysBeforeMonth(y, k) < r
                  /\ r <= DaysBeforeMonth(y, k) + DaysInMonth(y, k)
    IN  Date(y, m, r - DaysBeforeMonth(y, m))

\* Comparison of two dates (date.__lt__).
DateLess(a, b) == ToOrdinal(a) < ToOrdinal(b)

\* timedelta(hours=h), normalised to days and seconds as the constructor does.
TimedeltaHours(h) == [days |-> h \div 24, seconds |-> (h % 24) * 3600]

\* date + timedelta: only the timedelta's days are added.
DateAdd(dt, td) == FromOrdinal(ToOrdinal(dt) + td.days)

NoDate == Date(0, 0, 0)

\* bday.replace(year=y): the date, or a ValueError when (y, month, day) is no date.
ReplaceYear(bday, y) ==
    IF ValidDate(y, bday.month, bday.day)
    THEN [ok |-> TRUE, date |-> Date(y, bday.month, bday.day)]
    ELSE [ok |-> FALSE, date |-> NoDate]

\* today = datetime.now(timezone.utc).date() + timedelta(hours=3)
Today(instant) == DateAdd(instant.date, TimedeltaHours(3))

(***************************************************************************)
(* The next occurrence of a birthday.  The same three statements appear in *)
(* the reminder loop, in the debug loop before it and in the digest.       *)
(***************************************************************************)
\* Mutant of NextBirthday: the comparison is <= instead of <, so that a birthday
\* that falls today is moved to next year.
NextBirthdayOnOrBefore(bday, tdy) ==
    LET first == ReplaceYear(bday, tdy.year)
    IN  IF ~first.ok THEN first
        ELSE IF ~DateLess(tdy, first.date) THEN ReplaceYear(bday, tdy.year + 1)
        ELSE first

\* main, reminder loop: next_bday = bday.replace(year=today.year); if next_bday <
\* today: next_bday = bday.replace(year=today.year + 1)
NextBirthday(bday, tdy) ==
    LET first == ReplaceYear(bday, tdy.year)
    IN  IF ~first.ok THEN first
        ELSE IF DateLess(first.date, tdy) THEN ReplaceYear(bday, tdy.year + 1)
        ELSE first

\* main, debug loop: the same computation, run over every record before the
\* reminder loop starts.
DebugNextBirthday(bday, tdy) ==
    LET first == ReplaceYear(bday, tdy.year)
    IN  IF ~first.ok THEN first
        ELSE IF DateLess(first.date, tdy) THEN ReplaceYear(bday, tdy.year + 1)
        ELSE first

\* send_all_birthdays_list: the same computation.
ListNextBirthday(bday, tdy) ==
    LET first == ReplaceYear(bday, tdy.year)
    IN  IF ~first.ok THEN first
        ELSE IF DateLess(first.date, tdy) THEN ReplaceYear(bday, tdy.year + 1)
        ELSE first

\* delta = (next_bday - today).days
DeltaDays(next, tdy) == ToOrdinal(next) - ToOrdinal(tdy)

\* calculate_age with the day of the month left out of the comparison.
calculate_ageMonthOnly(birthdate, target_date) ==
    target_date.year - birthdate.year
        - (IF target_date.month < birthdate.month THEN 1 ELSE 0)

\* calculate_age: a bool subtracted from the difference of the years.
calculate_age(birthdate, target_date) ==
    target_date.year - birthdate.year
        - (IF \/ target_date.month < birthdate.month
              \/ /\ target_date.month = birthdate.month
                 /\ target_date.day < birthdate.day
           THEN 1 ELSE 0)

milestone_ages == {18, 20, 25, 30, 35, 40, 45, 50, 55, 60, 65, 70, 75, 80, 85, 90, 95, 100}

is_milestone_age(age) == age \in milestone_ages

(***************************************************************************)
(* Text.  A message text is the list of lines that "\n".join puts          *)
(* together; a line is kept by its length in characters and, for a digest  *)
(* entry, by the record it was made from (idx, its position in the CSV; 0  *)
(* for a header).                                                          *)
(***************************************************************************)
RECURSIVE Digits(_)
\* len(str(n)) for n >= 0
Digits(n) == IF n < 10 THEN 1 ELSE 1 + Digits(n \div 10)

Line(idx, delta, next, ms, len) ==
    [idx |-> idx, delta |-> delta, next |-> next, milestone |-> ms, len |-> len]

\* f"• {name}: {next_bday:%d.%m} ({delta} days){milestone_indicator}"
EntryLine(idx, nameLen, next, delta, ms) ==
    Line(idx, delta, next, ms,
         2 + nameLen + 2 + 5 + 2 + Digits(delta) + 6 + (IF ms THEN 2 ELSE 0))

\* "📋 All Birthdays List\n"
ListHeader == Line(0, 0, NoDate, FALSE, 21)

\* f"📋 All Birthdays List (Part {part_num})\n"
PartHeader(part_num) == Line(0, 0, NoDate, FALSE, 27 + Digits(part_num) + 2)

RECURSIVE SumLen(_)
SumLen(lines) == IF lines = <<>> THEN 0 ELSE Head(lines).len + SumLen(Tail(lines))

\* len("\n".join(lines))
JoinLen(lines) == IF lines = <<>> THEN 0 ELSE SumLen(lines) + (Len(lines) - 1)

(***************************************************************************)
(* send_all_birthdays_list                                                 *)
(***************************************************************************)
Budget == 3500

\* The loop that fills birthday_info: one (delta, line) per record, in CSV order.
\* A ValueError of replace ends it (raised |-> TRUE).
RECURSIVE BirthdayInfo(_, _, _)
BirthdayInfo(bs, tdy, k) ==
    IF k > Len(bs) THEN [raised |-> FALSE, info |-> <<>>]
    ELSE LET nb == ListNextBirthday(bs[k].bday, tdy)
         IN  IF ~nb.ok THEN [raised |-> TRUE, info |-> <<>>]
             ELSE LET delta == DeltaDays(nb.date, tdy)
                      age   == calculate_age(bs[k].bday, nb.date)
                      rest  == BirthdayInfo(bs, tdy, k + 1)
                  IN  IF rest.raised THEN rest
                      ELSE [raised |-> FALSE,
                            info |-> <<EntryLine(k, bs[k].nameLen, nb.date, delta,
                                                 is_milestone_age(age))>> \o rest.info]

\* Mutant of InsertByDelta: x goes before the entries of equal key (an unstable sort).
RECURSIVE InsertBeforeEqual(_, _)
InsertBeforeEqual(sorted, x) ==
    IF sorted = <<>> THEN <<x>>
    ELSE IF x.delta <= Head(sorted).delta THEN <<x>> \o sorted
    ELSE <<Head(sorted)>> \o InsertBeforeEqual(Tail(sorted), x)

\* The place list.sort gives x among the already sorted entries: after every entry
\* whose key is not greater (the sort is stable).
RECURSIVE InsertByDelta(_, _)
InsertByDelta(sorted, x) ==
    IF sorted = <<>> THEN <<x>>
    ELSE IF x.delta < Head(sorted).delta THEN <<x>> \o sorted
    ELSE <<Head(sorted)>> \o InsertByDelta(Tail(sorted), x)

\* birthday_info.sort(key=lambda x: x[0])
RECURSIVE SortByDelta(_)
SortByDelta(info) ==
    IF info = <<>> THEN <<>>
    ELSE InsertByDelta(SortByDelta(SubSeq(info, 1, Len(info) - 1)), info[Len(info)])

Msg(kind, idx, delta, ms, part, lines) ==
    [kind |-> kind, idx |-> idx, delta |-> delta, milestone |-> ms, part |-> part,
     lines |-> lines]

\* Mutant of ChunkLoop: the line that did not fit is not put into the new chunk.
RECURSIVE ChunkLoopDropsLine(_, _, _, _, _)
ChunkLoopDropsLine(info, k, chunk_lines, current_length, part_num) ==
    IF k > Len(info)
    THEN (IF Len(chunk_lines) > 1
          THEN <<Msg("chunk", 0, 0, FALSE, part_num, chunk_lines)>> ELSE <<>>)
    ELSE IF current_length + info[k].len + 1 > Budget
         THEN <<Msg("chunk", 0, 0, FALSE, part_num, chunk_lines)>>
              \o ChunkLoopDropsLine(info, k + 1, <<PartHeader(part_num + 1)>>,
                                    PartHeader(part_num + 1).len, part_num + 1)
         ELSE ChunkLoopDropsLine(info, k + 1, Append(chunk_lines, info[k]),
                                 current_length + info[k].len + 1, part_num)

\* The chunk loop: the texts handed to send_message, in order.  chunk_lines starts
\* with the part's header; current_length is the running length the code keeps.
RECURSIVE ChunkLoop(_, _, _, _, _)
ChunkLoop(info, k, chunk_lines, current_length, part_num) ==
    IF k > Len(info)
    THEN (IF Len(chunk_lines) > 1
          THEN <<Msg("chunk", 0, 0, FALSE, part_num, chunk_lines)>> ELSE <<>>)
    ELSE IF current_length + info[k].len + 1 > Budget
         THEN <<Msg("chunk", 0, 0, FALSE, part_num, chunk_lines)>>
              \o ChunkLoop(info, k + 1, <<PartHeader(part_num + 1), info[k]>>,
                           PartHeader(part_num + 1).len + info[k].len + 1, part_num + 1)
         ELSE ChunkLoop(info, k + 1, Append(chunk_lines, info[k]),
                        current_length + info[k].len + 1, part_num)

\* The texts send_all_birthdays_list hands to send_message for a sorted
\* birthday_info: the one message, or the chunks.
DigestMessages(sorted) ==
    LET message == <<ListHeader>> \o sorted
    IN  IF JoinLen(message) > Budget
        THEN ChunkLoop(sorted, 1, <<PartHeader(1)>>, PartHeader(1).len, 1)
        ELSE <<Msg("digest", 0, 0, FALSE, 0, message)>>

\* send_all_birthdays_list(birthdays, today): what it would send, or the ValueError.
send_all_birthdays_list(bs, tdy) ==
    IF bs = <<>>
    THEN [raised |-> FALSE, msgs |-> <<Msg("list_empty", 0, 0, FALSE, 0, <<>>)>>]
    ELSE LET bi == BirthdayInfo(bs, tdy, 1)
         IN  IF bi.raised THEN [raised |-> TRUE, msgs |-> <<>>]
             ELSE [raised |-> FALSE, msgs |-> DigestMessages(SortByDelta(bi.info))]

(***************************************************************************)
(* fetch_birthdays: the loop over the CSV rows.  A row is a function from  *)
(* column names to cell texts; a text is a sequence of characters.         *)
(***************************************************************************)
Cell(row, col) == IF col \in DOMAIN row THEN row[col] ELSE <<>>

\* a or b or ...: the first cell that is not empty (None and "" are both falsy).
RECURSIVE FirstTruthy(_, _)
FirstTruthy(row, cols) ==
    IF cols = <<>> THEN <<>>
    ELSE IF Cell(row, Head(cols)) # <<>> THEN Cell(row, Head(cols))
    ELSE FirstTruthy(row, Tail(cols))

\* The column names tried for the name; "Im'ya", "im'ya" and "Imya" stand for the
\* three Ukrainian spellings.
NameColumns == <<"Im'ya", "name", "Name", "im'ya", "NAME", "Imya">>

\* The column names tried for the date; "Data narodzhennya", "data narodzhennya"
\* and "Data" stand for the three Ukrainian spellings.
BirthdayColumns ==
    <<"Data narodzhennya", "Birthday", "birthday", "data narodzhennya", "BIRTHDAY", "Data">>

DigitChars == {"0", "1", "2", "3", "4", "5", "6", "7", "8", "9"}

DigitVal(c) ==
    CASE c = "0" -> 0 [] c = "1" -> 1 [] c = "2" -> 2 [] c = "3" -> 3 [] c = "4" -> 4
      [] c = "5" -> 5 [] c = "6" -> 6 [] c = "7" -> 7 [] c = "8" -> 8 [] c = "9" -> 9

RECURSIVE DigitsVal(_)
DigitsVal(s) ==
    IF s = <<>> THEN 0
    ELSE DigitsVal(SubSeq(s, 1, Len(s) - 1)) * 10 + DigitVal(s[Len(s)])

\* str.strip() (the only whitespace of the model's texts is the blank).
RECURSIVE Strip(_)
Strip(s) ==
    IF s = <<>> THEN s
    ELSE IF Head(s) = " " THEN Strip(Tail(s))
    ELSE IF s[Len(s)] = " " THEN Strip(SubSeq(s, 1, Len(s) - 1))
    ELSE s

\* c in s
Contains(s, c) == \E k \in 1..Len(s) : s[k] = c

\* s.split(sep)
RECURSIVE Split(_, _)
Split(s, sep) ==
    IF ~Contains(s, sep) THEN <<s>>
    ELSE LET k == CHOOSE j \in 1..Len(s) : s[j] = sep /\ \A q \in 1..(j - 1) : s[q] # sep
         IN  <<SubSeq(s, 1, k - 1)>> \o Split(SubSeq(s, k + 1, Len(s)), sep)

\* The digits of s without its leading zeros.
RECURSIVE StripZeros(_)
StripZeros(s) == IF s # <<>> /\ Head(s) = "0" THEN StripZeros(Tail(s)) ELSE s

\* Whether the number written by the digits sig (no leading zeros) is above limit9 * 10 +
\* limitLast, a bound of ten digits: the test of a C int conversion.
AboveCInt(sig, limitLast) ==
    \/ Len(sig) > 10
    \/ /\ Len(sig) = 10
       /\ \/ DigitsVal(SubSeq(sig, 1, 9)) > 214748364
          \/ /\ DigitsVal(SubSeq(sig, 1, 9)) = 214748364
             /\ DigitVal(sig[10]) > limitLast

\* int(s): blanks around, an optional sign, then digits; anything else is a ValueError.
\* wide: the number has ten digits or more (val is then not kept: no date field is
\* that large); huge: it is outside the range of a C int.
IntOf(s) ==
    LET t      == Strip(s)
        signed == t # <<>> /\ Head(t) \in {"+", "-"}
        neg    == signed /\ Head(t) = "-"
        body   == IF signed THEN Tail(t) ELSE t
        sig    == StripZeros(body)
    IN  IF body # <<>> /\ \A k \in 1..Len(body) : body[k] \in DigitChars
        THEN [ok |-> TRUE,
              wide |-> Len(sig) > 9,
              huge |-> AboveCInt(sig, IF neg THEN 8 ELSE 7),
              val |-> IF Len(sig) > 9 THEN 0
                      ELSE IF neg THEN 0 - DigitsVal(sig) ELSE DigitsVal(sig)]
        ELSE [ok |-> FALSE, wide |-> FALSE, huge |-> FALSE, val |-> 0]

Parsed(status, date) == [status |-> status, date |-> date]

\* datetime(int(year), int(month), int(day)).date(): a text that is no number is a
\* ValueError of int; a number outside the C int range is an OverflowError of the
\* constructor; a date that does not exist is a ValueError of the constructor.
MakeDate(year, month, day) ==
    LET y == IntOf(year)
        m == IntOf(month)
        d == IntOf(day)
    IN  IF ~(y.ok /\ m.ok /\ d.ok) THEN Parsed("ValueError", NoDate)
        ELSE IF y.huge \/ m.huge \/ d.huge THEN Parsed("OverflowError", NoDate)
        ELSE IF y.wide \/ m.wide \/ d.wide THEN Parsed("ValueError", NoDate)
        ELSE IF ValidDate(y.val, m.val, d.val)
             THEN Parsed("added", Date(y.val, m.val, d.val))
             ELSE Parsed("ValueError", NoDate)

\* datetime.fromisoformat(birthday).date() for a text of 10 characters: YYYY-MM-DD.
\* (The model's texts hold no "W": the week form YYYY-Www-D does not occur.)
FromIsoFormat(t) ==
    IF /\ Len(t) = 10
       /\ t[5] = "-" /\ t[8] = "-"
       /\ \A k \in {1, 2, 3, 4, 6, 7, 9, 10} : t[k] \in DigitChars
       /\ ValidDate(DigitsVal(SubSeq(t, 1, 4)), DigitsVal(SubSeq(t, 6, 7)),
                    DigitsVal(SubSeq(t, 9, 10)))
    THEN Parsed("added", Date(DigitsVal(SubSeq(t, 1, 4)), DigitsVal(SubSeq(t, 6, 7)),
                              DigitsVal(SubSeq(t, 9, 10))))
    ELSE Parsed("ValueError", NoDate)

\* Mutant of PivotCentury: the comparison is >= 50.
PivotCenturyFrom50(yy) == IF yy >= 50 THEN <<"1", "9">> ELSE <<"2", "0">>

\* year = f"19{year}" if int(year) > 50 else f"20{year}"
PivotCentury(yy) == IF yy > 50 THEN <<"1", "9">> ELSE <<"2", "0">>

\* The DD.MM.YYYY and DD/MM/YYYY branches: split, widen a two-character year, build.
DayMonthYear(t, sep) ==
    LET parts == Split(t, sep)
    IN  IF Len(parts) # 3 THEN Parsed("unparsed", NoDate)
        ELSE LET day   == parts[1]
                 month == parts[2]
                 year  == parts[3]
             IN  IF Len(year) = 2
                 THEN (IF ~IntOf(year).ok THEN Parsed("ValueError", NoDate)
                       ELSE MakeDate(PivotCentury(IntOf(year).val) \o year, month, day))
                 ELSE MakeDate(year, month, day)

\* The date formats tried on birthday.strip(), in the code's order.
ParseBirthday(birthday) ==
    LET t == Strip(birthday)
    IN  IF Contains(t, "-") /\ Len(t) = 10 THEN FromIsoFormat(t)
        ELSE IF Contains(t, ".") THEN DayMonthYear(t, ".")
        ELSE IF Contains(t, "/") THEN DayMonthYear(t, "/")
        ELSE Parsed("unparsed", NoDate)

\* One iteration of "for row in data": what happens to the row.
ParseRowResult(row) ==
    LET name     == FirstTruthy(row, NameColumns)
        birthday == FirstTruthy(row, BirthdayColumns)
    IN  IF name # <<>> /\ birthday # <<>> THEN ParseBirthday(birthday)
        ELSE Parsed("missing", NoDate)

(***************************************************************************)
(* Inputs of a run: the clock, the pending command, the CSV.               *)
(***************************************************************************)
UtcDates == {Date(2024, 3, 10), Date(2024, 2, 22), Date(2023, 12, 31)}

UtcHours == {12, 22}

Instants == [date : UtcDates, hour : UtcHours]

Commands == {"none", "start", "birthdays"}

Person(bday, nameLen) == [bday |-> bday, nameLen |-> nameLen]

\* The entries a CSV of the model may hold.
People ==
    { Person(Date(2000, 3, 17), 5),
      Person(Date(1974, 3, 10), 4),
      Person(Date(1990, 3, 11), 1716),
      Person(Date(2000, 2, 29), 1716),
      Person(Date(1995, 1, 1), 3457),
      Person(Date(1995, 3, 10), 5) }

BirthdayLists == UNION { [1..n -> People] : n \in 0..MaxRecords }

(***************************************************************************)
(* send_message: the call is recorded with its outcome; a failed call      *)
(* prints the failure and re-raises.                                       *)
(***************************************************************************)
Call(msg, ok) == [m |-> msg, ok |-> ok]

Min(a, b) == IF a < b THEN a ELSE b

\* send_message over msgs in order, the first k calls succeeding: the calls made
\* (the failed call is the last one, nothing is sent after it).
Attempts(msgs, k) == [j \in 1..Min(k + 1, Len(msgs)) |-> Call(msgs[j], j <= k)]

SendLog(msgs, k) == IF k < Len(msgs) THEN <<"send_failed">> ELSE <<>>

Simple(kind) == Msg(kind, 0, 0, FALSE, 0, <<>>)

(***************************************************************************)
(* The run.  The configuration (URL, token, chat id) is present; Init is    *)
(* the state after today has been computed.                                *)
(***************************************************************************)
\* One entry of data['result']: message tells whether it has a 'message' key.
Update(message, chat, text) == [message |-> message, chat |-> chat, text |-> text]

StartText == <<"/", "s", "t", "a", "r", "t">>

BirthdaysText == <<"/", "b", "i", "r", "t", "h", "d", "a", "y", "s">>

\* The requests of check_for_commands that raise: none, the getUpdates call, or
\* the call that marks an update as processed.
RequestFailures == {"none", "getUpdates", "offset"}

\* for message_data in messages, from position k on.
RECURSIVE ScanMessages(_, _, _)
ScanMessages(messages, k, raises) ==
    IF k > Len(messages) THEN [command |-> "none", raised |-> FALSE]
    ELSE LET message_data == messages[k]
             message_text == Strip(message_data.text)
         IN  IF ~message_data.message \/ message_data.chat # "CHAT_ID"
             THEN ScanMessages(messages, k + 1, raises)
             ELSE IF raises = "offset" THEN [command |-> "none", raised |-> TRUE]
             ELSE IF message_text = BirthdaysText
                  THEN [command |-> "birthdays", raised |-> FALSE]
             ELSE IF message_text = StartText
                  THEN [command |-> "start", raised |-> FALSE]
             ELSE ScanMessages(messages, k + 1, raises)

\* check_for_commands: the command found, "none" for None.
check_for_commands(result, raises) ==
    IF raises = "getUpdates" THEN [command |-> "none", raised |-> TRUE]
    ELSE ScanMessages(result, 1, raises)

UpdateLists ==
    { <<>>,
      <<Update(TRUE, "CHAT_ID", StartText)>>,
      <<Update(TRUE, "other", StartText)>>,
      <<Update(TRUE, "other", StartText),
        Update(TRUE, "CHAT_ID", <<" ">> \o BirthdaysText \o <<" ">>)>>,
      <<Update(FALSE, "CHAT_ID", <<>>),
        Update(TRUE, "CHAT_ID", <<"h", "i">>),
        Update(TRUE, "CHAT_ID", StartText),
        Update(TRUE, "CHAT_ID", BirthdaysText)>> }

Init ==
    /\ prog \in {"main", "manual"}
    /\ utc \in Instants
    /\ today = Today(utc)
    /\ pc = IF prog = "main" THEN "check" ELSE "fetch"
    /\ command = "none"
    /\ birthdays = <<>>
    /\ i = 0
    /\ reminders_sent = 0
    /\ calls = <<>>
    /\ log = <<>>
    /\ outcome = "running"
    /\ occ = <<>>
    /\ rows = <<>>
    /\ parsed = <<>>
    /\ ages = <<>>
    /\ updates \in (IF prog = "main" THEN UpdateLists ELSE {<<>>})

Finish(how) ==
    /\ pc' = "done"
    /\ outcome' = how

\* main: command = check_for_commands().  Either request of the function may
\* raise; the function then prints the error and returns None.
CheckForCommands ==
    /\ prog = "main" /\ pc = "check"
    /\ \E raises \in RequestFailures :
          LET r == check_for_commands(updates, raises)
          IN  /\ command' = r.command
              /\ log' = IF r.raised THEN Append(log, "command_check_failed") ELSE log
    /\ pc' = "fetch"
    /\ UNCHANGED <<prog, utc, today, birthdays, i, reminders_sent, calls, outcome,
                   occ, rows, parsed, ages, updates>>

\* fetch_birthdays returned a list.
FetchOk ==
    /\ pc = "fetch"
    /\ \E bs \in BirthdayLists : birthdays' = bs
    /\ pc' = IF prog = "manual" THEN "manual"
             ELSE IF command = "none" THEN "daily" ELSE "command"
    /\ UNCHANGED <<prog, utc, today, command, i, reminders_sent, calls, log, outcome,
                   occ, rows, parsed, ages, updates>>

\* main, command pending: fetch_birthdays raised; the error text is sent, then return.
CommandFetchFails ==
    /\ prog = "main" /\ pc = "fetch" /\ command # "none"
    /\ \E ok \in BOOLEAN :
          /\ calls' = Append(calls, Call(Simple("fetch_error"), ok))
          /\ log' = log \o <<"fetch_error">> \o (IF ok THEN <<>> ELSE <<"send_failed">>)
          /\ Finish(IF ok THEN "returned" ELSE "SendError")
    /\ UNCHANGED <<prog, utc, today, command, birthdays, i, reminders_sent, occ, rows, parsed, ages, updates>>

\* main, daily run: fetch_birthdays raised; printed, then return.
DailyFetchFails ==
    /\ prog = "main" /\ pc = "fetch" /\ command = "none"
    /\ log' = Append(log, "fetch_error")
    /\ Finish("returned")
    /\ UNCHANGED <<prog, utc, today, command, birthdays, i, reminders_sent, calls, occ,
                   rows, parsed, ages, updates>>

\* send_birthday_list.main: fetch_birthdays raised; printed, then return.
ManualFetchFails ==
    /\ prog = "manual" /\ pc = "fetch"
    /\ log' = Append(log, "fetch_error")
    /\ Finish("returned")
    /\ UNCHANGED <<prog, utc, today, command, birthdays, i, reminders_sent, calls, occ,
                   rows, parsed, ages, updates>>

\* HandleStart without the return after the command: the daily check follows.
HandleStartFallsThrough ==
    /\ prog = "main" /\ pc = "command" /\ command = "start"
    /\ \E ok \in BOOLEAN :
          /\ calls' = Append(calls, Call(Simple("welcome"), ok))
          /\ log' = log \o (IF ok THEN <<>> ELSE <<"send_failed">>)
          /\ IF ok THEN pc' = "daily" /\ UNCHANGED outcome ELSE Finish("SendError")
    /\ UNCHANGED <<prog, utc, today, command, birthdays, i, reminders_sent, occ, rows, parsed, ages, updates>>

\* main: command == 'start'
HandleStart ==
    /\ prog = "main" /\ pc = "command" /\ command = "start"
    /\ \E ok \in BOOLEAN :
          /\ calls' = Append(calls, Call(Simple("welcome"), ok))
          /\ log' = log \o (IF ok THEN <<>> ELSE <<"send_failed">>)
          /\ Finish(IF ok THEN "returned" ELSE "SendError")
    /\ UNCHANGED <<prog, utc, today, command, birthdays, i, reminders_sent, occ, rows, parsed, ages, updates>>

\* main: command == 'birthdays'
HandleBirthdays ==
    /\ prog = "main" /\ pc = "command" /\ command = "birthdays"
    /\ LET r == send_all_birthdays_list(birthdays, today)
       IN  \E k \in 0..Len(r.msgs) :
              /\ calls' = calls \o Attempts(r.msgs, k)
              /\ log' = log \o SendLog(r.msgs, k)
              /\ Finish(IF r.raised THEN "ValueError"
                        ELSE IF k < Len(r.msgs) THEN "SendError" ELSE "returned")
    /\ UNCHANGED <<prog, utc, today, command, birthdays, i, reminders_sent, occ, rows, parsed, ages, updates>>

\* main: if not birthdays: the error text is sent inside try/except, then return.
DailyNoBirthdays ==
    /\ prog = "main" /\ pc = "daily" /\ birthdays = <<>>
    /\ \E ok \in BOOLEAN :
          /\ calls' = Append(calls, Call(Simple("no_valid_birthdays"), ok))
          /\ log' = log \o <<"no_valid_birthdays">>
                        \o (IF ok THEN <<>> ELSE <<"send_failed", "error_message_failed">>)
    /\ Finish("returned")
    /\ UNCHANGED <<prog, utc, today, command, birthdays, i, reminders_sent, occ, rows, parsed, ages, updates>>

\* main: the debug loop over all records; a ValueError of replace is not caught.
DebugLoop ==
    /\ prog = "main" /\ pc = "daily" /\ birthdays # <<>>
    /\ IF \E k \in 1..Len(birthdays) : ~DebugNextBirthday(birthdays[k].bday, today).ok
       THEN /\ Finish("ValueError")
            /\ UNCHANGED <<i, reminders_sent>>
       ELSE /\ pc' = "loop"
            /\ i' = 1
            /\ reminders_sent' = 0
            /\ UNCHANGED outcome
    /\ UNCHANGED <<prog, utc, today, command, birthdays, calls, log, occ, rows, parsed, ages, updates>>

\* main: one iteration of the reminder loop, for birthdays[i].
ReminderStep ==
    /\ prog = "main" /\ pc = "loop" /\ i <= Len(birthdays)
    /\ LET nb == NextBirthday(birthdays[i].bday, today)
       IN  IF ~nb.ok
           THEN /\ Finish("ValueError")
                /\ UNCHANGED <<i, reminders_sent, calls, log, occ>>
           ELSE LET delta == DeltaDays(nb.date, today)
                    ms    == is_milestone_age(calculate_age(birthdays[i].bday, nb.date))
                    kind  == IF delta \in {7, 1} THEN "reminder"
                             ELSE IF delta = 0 THEN "greeting" ELSE "nothing"
                IN  /\ occ' = Append(occ, [idx |-> i, next |-> nb.date, delta |-> delta])
                    /\ IF kind = "nothing"
                       THEN /\ i' = i + 1
                            /\ UNCHANGED <<pc, outcome, reminders_sent, calls, log>>
                       ELSE \E ok \in BOOLEAN :
                              /\ calls' = Append(calls, Call(Msg(kind, i, delta, ms, 0, <<>>), ok))
                              /\ IF ok
                                 THEN /\ reminders_sent' = reminders_sent + 1
                                      /\ i' = i + 1
                                      /\ UNCHANGED <<pc, outcome, log>>
                                 ELSE /\ log' = Append(log, "send_failed")
                                      /\ Finish("SendError")
                                      /\ UNCHANGED <<i, reminders_sent>>
    /\ UNCHANGED <<prog, utc, today, command, birthdays, rows, parsed, ages, updates>>

\* main: the control message after the loop.
ControlMessage ==
    /\ prog = "main" /\ pc = "loop" /\ i > Len(birthdays)
    /\ \E ok \in BOOLEAN :
          /\ calls' = Append(calls, Call(Simple("control"), ok))
          /\ log' = log \o (IF ok THEN <<>> ELSE <<"send_failed">>)
          /\ Finish(IF ok THEN "returned" ELSE "SendError")
    /\ UNCHANGED <<prog, utc, today, command, birthdays, i, reminders_sent, occ, rows, parsed, ages, updates>>

\* send_birthday_list.main: if not birthdays
ManualNoData ==
    /\ prog = "manual" /\ pc = "manual" /\ birthdays = <<>>
    /\ \E ok \in BOOLEAN :
          /\ calls' = Append(calls, Call(Simple("manual_no_data"), ok))
          /\ log' = log \o (IF ok THEN <<>> ELSE <<"send_failed">>)
          /\ Finish(IF ok THEN "returned" ELSE "SendError")
    /\ UNCHANGED <<prog, utc, today, command, birthdays, i, reminders_sent, occ, rows, parsed, ages, updates>>

\* send_birthday_list.main: the header, then send_all_birthdays_list.
ManualSendList ==
    /\ prog = "manual" /\ pc = "manual" /\ birthdays # <<>>
    /\ LET r    == send_all_birthdays_list(birthdays, today)
           msgs == <<Simple("manual_header")>> \o r.msgs
       IN  \E k \in 0..Len(msgs) :
              /\ calls' = calls \o Attempts(msgs, k)
              /\ log' = log \o SendLog(msgs, k)
              /\ Finish(IF k < Len(msgs) THEN "SendError"
                        ELSE IF r.raised THEN "ValueError" ELSE "returned")
    /\ UNCHANGED <<prog, utc, today, command, birthdays, i, reminders_sent, occ, rows, parsed, ages, updates>>

Next ==
    \/ CheckForCommands
    \/ FetchOk
    \/ CommandFetchFails
    \/ DailyFetchFails
    \/ ManualFetchFails
    \/ HandleStart
    \/ HandleBirthdays
    \/ DailyNoBirthdays
    \/ DebugLoop
    \/ ReminderStep
    \/ ControlMessage
    \/ ManualNoData
    \/ ManualSendList

Spec == Init /\ [][Next]_vars

(***************************************************************************)
(* The parse of a CSV: fetch_birthdays from "for row in data" on.          *)
(***************************************************************************)
Row(nameCol, name, dateCol, date) == (nameCol :> name) @@ (dateCol :> date)

\* The rows a CSV of the model may hold.
RowPool ==
    {
      Row("Name", <<"A", "n", "n">>, "Birthday", <<"1", "5", ".", "0", "3", ".", "5", "0">>),
      Row("Name", <<"B", "o", "b">>, "Birthday", <<"1", "5", ".", "0", "3", ".", "4", "9">>),
      Row("name", <<"C", "y">>, "birthday", <<"0", "1", "/", "0", "1", "/", "5", "1">>),
      Row("Name", <<"D", "i">>, "Birthday", <<"3", "1", ".", "0", "2", ".", "2", "0", "0", "0">>),
      Row("Name", <<"E", "d">>, "Birthday", <<"2", "0", "0", "0", "-", "0", "3", "-", "1", "7">>),
      Row("NAME", <<"F", "l", "o">>, "BIRTHDAY", <<" ", "1", "0", "/", "0", "3", "/", "1", "9", "7", "4", " ">>),
      Row("Name", <<>>, "Birthday", <<"1", "5", ".", "0", "3", ".", "1", "9", "9", "0">>),
      Row("Name", <<"G", "u", "s">>, "Birthday", <<"1", "5", "-", "0", "3", "-", "1", "9", "9", "0">>),
      Row("Name", <<"H", "a", "l">>, "Birthday", <<"M", "a", "r", "c", "h", " ", "5">>),
      Row("Name", <<" ">>, "Birthday", <<"2", "9", ".", "0", "2", ".", "0", "0">>),
      Row("Name", <<"I", "a", "n">>, "Birthday", <<"1", ".", "2", ".", "9", "9">>),
      Row("Name", <<"J", "o">>, "Birthday", <<"0", "5", "/", "0", "6", "/", "5", "0">>),
      Row("Name", <<"K", "i", "m">>, "Birthday", <<"1", ".", "2", ".", "+", "5">>),
      Row("Name", <<"L", "e", "e">>, "Birthday", <<"1", ".", "2">>),
      Row("Name", <<"M", "o">>, "Birthday",
          <<"0", "1", ".", "0", "1", ".", "9", "9", "9", "9", "9", "9", "9", "9", "9", "9", "9">>) }

RowLists == UNION { [1..n -> RowPool] : n \in 0..MaxRows }

InitParse ==
    /\ prog = "parse"
    /\ rows \in RowLists
    /\ parsed = <<>>
    /\ birthdays = <<>>
    /\ pc = "rows"
    /\ utc = [date |-> NoDate, hour |-> 0]
    /\ today = NoDate
    /\ command = "none"
    /\ i = 0
    /\ reminders_sent = 0
    /\ calls = <<>>
    /\ log = <<>>
    /\ outcome = "running"
    /\ occ = <<>>
    /\ ages = <<>>
    /\ updates = <<>>

\* One iteration of "for row in data".  Only ValueError and IndexError are caught:
\* an OverflowError leaves fetch_birthdays.
ParseRow ==
    /\ prog = "parse" /\ pc = "rows" /\ rows # <<>>
    /\ LET row == Head(rows)
           r   == ParseRowResult(row)
       IN  /\ parsed' = Append(parsed, [row |-> row, status |-> r.status, date |-> r.date])
           /\ birthdays' = IF r.status = "added"
                           THEN Append(birthdays,
                                       Person(r.date, Len(FirstTruthy(row, NameColumns))))
                           ELSE birthdays
           /\ IF r.status = "OverflowError"
              THEN Finish("OverflowError")
              ELSE UNCHANGED <<pc, outcome>>
    /\ rows' = Tail(rows)
    /\ UNCHANGED <<prog, utc, today, command, i, reminders_sent, calls, log, occ, ages, updates>>

\* return birthdays
ParseReturn ==
    /\ prog = "parse" /\ pc = "rows" /\ rows = <<>>
    /\ Finish("returned")
    /\ UNCHANGED <<prog, utc, today, command, birthdays, i, reminders_sent, calls, log, occ,
                   rows, parsed, ages, updates>>

NextParse == ParseRow \/ ParseReturn

SpecParse == InitParse /\ [][NextParse]_vars

(***************************************************************************)
(* calculate_age and is_milestone_age called on their own, with birth      *)
(* dates and target dates on either side of the birthday in the year.      *)
(***************************************************************************)
AgeBirthdates ==
    { Date(1995, 3, 10), Date(1974, 3, 10), Date(2006, 3, 11), Date(2000, 2, 29),
      Date(2004, 12, 31), Date(2024, 3, 10) }

AgeTargetDates ==
    { Date(2024, 3, 10), Date(2024, 3, 9), Date(2024, 3, 11), Date(2024, 2, 29),
      Date(2024, 4, 1), Date(2024, 12, 31), Date(2025, 1, 1), Date(2025, 2, 28),
      Date(2074, 3, 9), Date(2100, 2, 28) }

InitAge ==
    /\ prog = "age"
    /\ pc = "call"
    /\ ages = <<>>
    /\ utc = [date |-> NoDate, hour |-> 0]
    /\ today = NoDate
    /\ command = "none"
    /\ birthdays = <<>>
    /\ i = 0
    /\ reminders_sent = 0
    /\ calls = <<>>
    /\ log = <<>>
    /\ outcome = "running"
    /\ occ = <<>>
    /\ rows = <<>>
    /\ parsed = <<>>
    /\ updates = <<>>

\* age = calculate_age(birthdate, target_date); is_milestone_age(age)
ApplyAge ==
    /\ prog = "age" /\ pc = "call"
    /\ \E birthdate \in AgeBirthdates, target_date \in AgeTargetDates :
          LET age == calculate_age(birthdate, target_date)
          IN  ages' = <<[birthdate |-> birthdate, target_date |-> target_date,
                         age |-> age, milestone |-> is_milestone_age(age)]>>
    /\ Finish("returned")
    /\ UNCHANGED <<prog, utc, today, command, birthdays, i, reminders_sent, calls, log, occ,
                   rows, parsed, updates>>

InitRunOrAge == Init \/ InitAge

NextRunOrAge == Next \/ ApplyAge

\* The runs of the two programs together with the calls of the age functions.
SpecAge == InitRunOrAge /\ [][NextRunOrAge]_vars

(***************************************************************************)
(* Properties.  Helper vocabulary first.                                   *)
(***************************************************************************)
\* The occurrence the data model asks for: the earliest date on or after tdy
\* with the birthday's month and day (Feb 29 recurs within eight years).
EarliestOccurrence(bday, tdy) ==
    LET years == { y \in tdy.year..(tdy.year + 8) :
                      /\ ValidDate(y, bday.month, bday.day)
                      /\ ~DateLess(Date(y, bday.month, bday.day), tdy) }
        first == CHOOSE y \in years : \A z \in years : y <= z
    IN  Date(first, bday.month, bday.day)

DeltaOf(k) == DeltaDays(EarliestOccurrence(birthdays[k].bday, today), today)

\* The positions k..Len(birthdays) of the records inside the reminder window.
RECURSIVE QualifyingFrom(_)
QualifyingFrom(k) ==
    IF k > Len(birthdays) THEN <<>>
    ELSE (IF DeltaOf(k) \in {7, 1, 0} THEN <<k>> ELSE <<>>) \o QualifyingFrom(k + 1)

IsReminderCall(c) == c.m.kind \in {"reminder", "greeting"}

IsDigestCall(c) == c.m.kind \in {"digest", "chunk"}

IsChunkCall(c) == c.m.kind = "chunk"

ReminderCalls == SelectSeq(calls, IsReminderCall)

ChunkCalls == SelectSeq(calls, IsChunkCall)

AllSendsSucceeded == \A j \in 1..Len(calls) : calls[j].ok

\* The entry lines (header dropped) of the given calls, in order.
RECURSIVE EntryLines(_)
EntryLines(cs) ==
    IF cs = <<>> THEN <<>>
    ELSE Tail(Head(cs).m.lines) \o EntryLines(Tail(cs))

DigestEntryLines == EntryLines(SelectSeq(calls, IsDigestCall))

\* A daily run of main that is over: no command, the fetch gave records.
DailyRunOver == prog = "main" /\ pc = "done" /\ command = "none" /\ birthdays # <<>>

\* A run that called send_all_birthdays_list on a non-empty list and returned.
DigestRunReturned ==
    /\ outcome = "returned" /\ birthdays # <<>>
    /\ (prog = "manual" \/ (prog = "main" /\ command = "birthdays"))

(***************************************************************************)
(* C1: in a daily run of main (no command, records fetched, every send     *)
(* succeeding) the reminder and greeting messages are, in CSV order,       *)
(* exactly one per record whose delta_days is 7, 1 or 0: a reminder for 7  *)
(* and 1, a greeting for 0, and none for any other record.                 *)
(***************************************************************************)
C1_OneReminderPerWindowRecord ==
    (DailyRunOver /\ AllSendsSucceeded) =>
        LET want == QualifyingFrom(1)
            got  == ReminderCalls
        IN  /\ Len(got) = Len(want)
            /\ \A j \in 1..Len(got) :
                  /\ got[j].m.idx = want[j]
                  /\ got[j].m.kind = IF DeltaOf(want[j]) = 0 THEN "greeting" ELSE "reminder"

\* What the data model asks of an occurrence (next, delta) of bday.
OccurrenceOk(bday, next, delta) ==
    /\ ~DateLess(next, today)
    /\ next.month = bday.month /\ next.day = bday.day
    /\ ValidDate(next.year, next.month, next.day)
    /\ \A y \in today.year..next.year :
          (ValidDate(y, bday.month, bday.day) /\ ~DateLess(Date(y, bday.month, bday.day), today))
              => ~DateLess(Date(y, bday.month, bday.day), next)
    /\ delta = ToOrdinal(next) - ToOrdinal(today)
    /\ delta >= 0

(***************************************************************************)
(* C2: every next occurrence computed by the reminder loop and by          *)
(* send_all_birthdays_list is on or after today, has the birthday's month  *)
(* and day, is the earliest such date, and its delta is next - today in    *)
(* days and is >= 0.                                                       *)
(***************************************************************************)
C2_NextOccurrence ==
    /\ \A j \in 1..Len(occ) : OccurrenceOk(birthdays[occ[j].idx].bday, occ[j].next, occ[j].delta)
    /\ \A j \in 1..Len(DigestEntryLines) :
          LET l == DigestEntryLines[j]
          IN  OccurrenceOk(birthdays[l.idx].bday, l.next, l.delta)

\* The reminder loop has handled a birthday that falls today and one that has
\* passed this year.
C2_Witness ==
    /\ \E j \in 1..Len(occ) : occ[j].delta = 0
    /\ \E j \in 1..Len(occ) : occ[j].next.year = today.year + 1

(***************************************************************************)
(* C3: a failed send of one reminder does not abort the daily run: the     *)
(* failure is logged, and the reminders of all later records in the window *)
(* and the final control message are still attempted.                      *)
(***************************************************************************)
C3_FailedSendDoesNotAbort ==
    \A j \in 1..Len(calls) :
        (DailyRunOver /\ IsReminderCall(calls[j]) /\ ~calls[j].ok) =>
            /\ \E q \in 1..Len(log) : log[q] = "send_failed"
            /\ \A k \in (calls[j].m.idx + 1)..Len(birthdays) :
                  DeltaOf(k) \in {7, 1, 0} =>
                      \E q \in 1..Len(calls) : IsReminderCall(calls[q]) /\ calls[q].m.idx = k
            /\ \E q \in 1..Len(calls) : calls[q].m.kind = "control"

(***************************************************************************)
(* C4: when the fetch fails, the daily run of main and the manual list     *)
(* sender do not crash and send exactly one "no data" notification.        *)
(***************************************************************************)
C4_FetchFailureSendsNoData ==
    (pc = "done" /\ command = "none" /\ \E q \in 1..Len(log) : log[q] = "fetch_error") =>
        /\ outcome = "returned"
        /\ Len(calls) = 1
        /\ calls[1].m.kind \in {"no_valid_birthdays", "manual_no_data"}

(***************************************************************************)
(* C5: computing the next occurrence of a Feb 29 birthday never raises a   *)
(* date-construction error: no run ends with an uncaught ValueError.       *)
(***************************************************************************)
C5_NoDateConstructionError == outcome # "ValueError"

(***************************************************************************)
(* C6: today is the calendar date of the UTC instant plus three hours, so  *)
(* from 21:00 UTC on it is the UTC date plus one day.                      *)
(***************************************************************************)
C6_TodayIsUtcPlus3 ==
    today = FromOrdinal(ToOrdinal(utc.date) + (utc.hour + 3) \div 24)

(***************************************************************************)
(* C7: the digest lists every record exactly once, ascending by            *)
(* delta_days, records of equal delta_days in their CSV order.             *)
(***************************************************************************)
C7_DigestSortedStable ==
    LET ls == DigestEntryLines
    IN  /\ \A a, b \in 1..Len(ls) :
              a < b => \/ ls[a].delta < ls[b].delta
                       \/ (ls[a].delta = ls[b].delta /\ ls[a].idx < ls[b].idx)
        /\ DigestRunReturned =>
              /\ Len(ls) = Len(birthdays)
              /\ { ls[a].idx : a \in 1..Len(ls) } = 1..Len(birthdays)

\* A complete digest in which the sort moved a record and kept a tie in CSV order.
C7_Witness ==
    LET ls == DigestEntryLines
    IN  /\ DigestRunReturned
        /\ \E a \in 1..Len(ls) : ls[a].idx # a
        /\ \E a, b \in 1..Len(ls) : a < b /\ ls[a].delta = ls[b].delta

(***************************************************************************)
(* C8: the entry lines of the chunks, in send order and headers removed,   *)
(* are exactly the sorted digest lines (a prefix of them while chunks are  *)
(* still being sent or after a failed send), and the chunks are numbered   *)
(* 1, 2, ... in send order.                                                *)
(***************************************************************************)
C8_ChunksConcatenate ==
    ChunkCalls # <<>> =>
        LET sorted == SortByDelta(BirthdayInfo(birthdays, today, 1).info)
            cat    == EntryLines(ChunkCalls)
        IN  /\ \A j \in 1..Len(ChunkCalls) :
                  /\ ChunkCalls[j].m.part = j
                  /\ Head(ChunkCalls[j].m.lines) = PartHeader(j)
            /\ Len(cat) <= Len(sorted)
            /\ cat = SubSeq(sorted, 1, Len(cat))
            /\ DigestRunReturned => cat = sorted

\* A digest sent completely in two or more chunks, one of them with two entries.
C8_Witness ==
    /\ DigestRunReturned
    /\ Len(ChunkCalls) >= 2
    /\ \E j \in 1..Len(ChunkCalls) : Len(ChunkCalls[j].m.lines) >= 3

(***************************************************************************)
(* C9: every message of send_all_birthdays_list for a non-empty list (the  *)
(* single digest or a chunk) is at most 3500 characters long.              *)
(***************************************************************************)
C9_DigestMessagesWithinBudget ==
    \A j \in 1..Len(calls) :
        (IsDigestCall(calls[j]) /\ calls[j].ok) => JoinLen(calls[j].m.lines) <= Budget

AllDigits(t) == t # <<>> /\ \A k \in 1..Len(t) : t[k] \in DigitChars

\* The birthday text of a parsed row, stripped.
BirthdayText(p) == Strip(FirstTruthy(p.row, BirthdayColumns))

\* The separator of a text the day-month-year branches take, or "" for none.
SeparatorOf(t) ==
    IF Contains(t, "-") /\ Len(t) = 10 THEN ""
    ELSE IF Contains(t, ".") THEN "."
    ELSE IF Contains(t, "/") THEN "/" ELSE ""

\* p is an accepted row whose date is DD<sep>MM<sep>YY, all digits, YY of two digits.
TwoDigitYearRow(p) ==
    /\ p.status = "added"
    /\ SeparatorOf(BirthdayText(p)) # ""
    /\ LET parts == Split(BirthdayText(p), SeparatorOf(BirthdayText(p)))
       IN  /\ Len(parts) = 3
           /\ \A k \in 1..3 : AllDigits(parts[k])
           /\ Len(parts[3]) = 2

YearDigits(p) == DigitsVal(Split(BirthdayText(p), SeparatorOf(BirthdayText(p)))[3])

(***************************************************************************)
(* C10, as stated: a DD.MM.YY or DD/MM/YY date with a two-digit year yy    *)
(* resolves to 2000+yy when yy < 50 and to 1900+yy when yy >= 50 (yy = 50  *)
(* gives 1950).                                                            *)
(***************************************************************************)
C10_PivotBelow50 ==
    \A j \in 1..Len(parsed) :
        TwoDigitYearRow(parsed[j]) =>
            parsed[j].date.year = IF YearDigits(parsed[j]) < 50
                                  THEN 2000 + YearDigits(parsed[j])
                                  ELSE 1900 + YearDigits(parsed[j])

\* C10 as amended: an accepted DD.MM.YY or DD/MM/YY date with a two-digit year yy
\* has the year 2000+yy when yy <= 50 and 1900+yy when yy > 50 (yy = 50 gives 2050).
C10_PivotAbove50 ==
    \A j \in 1..Len(parsed) :
        TwoDigitYearRow(parsed[j]) =>
            parsed[j].date.year = IF YearDigits(parsed[j]) <= 50
                                  THEN 2000 + YearDigits(parsed[j])
                                  ELSE 1900 + YearDigits(parsed[j])

\* A row with yy = 50 and one with yy = 51 have been accepted.
C10_Witness ==
    /\ \E j \in 1..Len(parsed) :
          /\ TwoDigitYearRow(parsed[j]) /\ YearDigits(parsed[j]) = 50
          /\ parsed[j].date.year = 2050
    /\ \E j \in 1..Len(parsed) :
          /\ TwoDigitYearRow(parsed[j]) /\ YearDigits(parsed[j]) = 51
          /\ parsed[j].date.year = 1951

\* The name cell and the date cell of a parsed row.
NameText(p) == FirstTruthy(p.row, NameColumns)

\* The entries fetch_birthdays appended for the rows parsed so far, in CSV order.
RECURSIVE AddedFrom(_)
AddedFrom(k) ==
    IF k > Len(parsed) THEN <<>>
    ELSE (IF parsed[k].status = "added"
          THEN <<Person(parsed[k].date, Len(NameText(parsed[k])))>> ELSE <<>>)
         \o AddedFrom(k + 1)

(***************************************************************************)
(* C11: fetch_birthdays never raises because of one row: a row whose date  *)
(* is no calendar date or in no accepted format, or whose name or date has *)
(* no non-empty trimmed value, is skipped, and the result is the records   *)
(* of the other rows in CSV order, each with a non-empty name and a date.  *)
(***************************************************************************)
C11_BadRowsAreSkipped ==
    prog = "parse" =>
        /\ outcome \in {"running", "returned"}
        /\ \A j \in 1..Len(parsed) :
              parsed[j].status = "added" <=>
                  /\ Strip(NameText(parsed[j])) # <<>>
                  /\ BirthdayText(parsed[j]) # <<>>
                  /\ ParseBirthday(BirthdayText(parsed[j])).status = "added"
        /\ \A j \in 1..Len(parsed) :
              parsed[j].status = "added" =>
                  ValidDate(parsed[j].date.year, parsed[j].date.month, parsed[j].date.day)
        /\ birthdays = AddedFrom(1)

\* The age the specification states: the difference of the years, less one
\* exactly when the target's (month, day) comes before the birth's.
StatedAge(birth, next_date) ==
    next_date.year - birth.year
        - (IF next_date.month * 100 + next_date.day < birth.month * 100 + birth.day
           THEN 1 ELSE 0)

\* 18, 20 and every fifth year from 25 to 100.
StatedMilestone(age) == age \in {18, 20} \cup { 25 + 5 * k : k \in 0..15 }

(***************************************************************************)
(* C12.  calculate_age returns next_date.year - birth.year, minus 1        *)
(* exactly when (next_date.month, next_date.day) is before (birth.month,   *)
(* birth.day); is_milestone_age holds exactly for 18, 20, 25, 30, ..., 100;*)
(* and every reminder, greeting and digest line carries the milestone      *)
(* annotation exactly when the age its record turns on the line's next     *)
(* birthday is one of those.  Birth 1995-03-10 at 2024-03-10 is 29, no     *)
(* milestone; birth 1974-03-10 is 50, a milestone.                         *)
(***************************************************************************)
C12_AgeAndMilestone ==
    /\ \A j \in 1..Len(ages) :
          /\ ages[j].age = StatedAge(ages[j].birthdate, ages[j].target_date)
          /\ ages[j].milestone <=> StatedMilestone(ages[j].age)
          /\ ages[j].target_date = Date(2024, 3, 10) =>
                /\ ages[j].birthdate = Date(1995, 3, 10) =>
                      ages[j].age = 29 /\ ~ages[j].milestone
                /\ ages[j].birthdate = Date(1974, 3, 10) =>
                      ages[j].age = 50 /\ ages[j].milestone
    /\ \A j \in 1..Len(calls) :
          IsReminderCall(calls[j]) =>
              (calls[j].m.milestone <=>
                  StatedMilestone(StatedAge(birthdays[calls[j].m.idx].bday,
                                            FromOrdinal(ToOrdinal(today) + calls[j].m.delta))))
    /\ \A j \in 1..Len(DigestEntryLines) :
          LET line == DigestEntryLines[j]
          IN  line.milestone <=>
                  StatedMilestone(StatedAge(birthdays[line.idx].bday, line.next))

\* On 2024-03-10 a run greeted the record born 1995-03-10 without the
\* annotation and the record born 1974-03-10 with it.
C12_Witness ==
    /\ today = Date(2024, 3, 10)
    /\ \E j, k \in 1..Len(calls) :
          /\ calls[j].m.kind = "greeting" /\ calls[k].m.kind = "greeting"
          /\ birthdays[calls[j].m.idx].bday = Date(1995, 3, 10)
          /\ ~calls[j].m.milestone
          /\ birthdays[calls[k].m.idx].bday = Date(1974, 3, 10)
          /\ calls[k].m.milestone

\* A /start or /birthdays message from the configured chat is among the updates.
CommandPending ==
    \E j \in 1..Len(updates) :
        /\ updates[j].message
        /\ updates[j].chat = "CHAT_ID"
        /\ Strip(updates[j].text) \in {StartText, BirthdaysText}

\* The messages that answer a command: the welcome text, the digest (whole,
\* in parts, or its "no birthdays" text) and the fetch-error text.
IsCommandResponse(c) ==
    c.m.kind \in {"welcome", "digest", "chunk", "list_empty", "fetch_error"}

\* Every message of the run so far is a command response, of this command.
OnlyCommandResponse ==
    /\ \A j \in 1..Len(calls) : IsCommandResponse(calls[j])
    /\ command = "start" =>
          /\ Len(calls) <= 1
          /\ \A j \in 1..Len(calls) : calls[j].m.kind \in {"welcome", "fetch_error"}
    /\ command = "birthdays" =>
          \A j \in 1..Len(calls) : calls[j].m.kind # "welcome"
    /\ pc \in {"fetch", "command", "done"}
    /\ i = 0 /\ reminders_sent = 0 /\ occ = <<>>

(***************************************************************************)
(* C13 as stated: a run of main in which check_for_commands returned a     *)
(* command sends only the command's response and exits, and reminders are  *)
(* sent only in runs where no command is pending.                          *)
(***************************************************************************)
C13_RemindersOnlyWithoutPendingCommand ==
    prog = "main" =>
        /\ command # "none" => OnlyCommandResponse
        /\ ReminderCalls # <<>> => ~CommandPending

(***************************************************************************)
(* C13 amended: a run of main in which check_for_commands returned a       *)
(* command sends only the command's response and exits, and reminders are  *)
(* sent only in runs where check_for_commands returned no command; a       *)
(* returned command was pending, and none is returned when a request of    *)
(* check_for_commands failed.                                              *)
(***************************************************************************)
C13_RemindersOnlyWithoutReturnedCommand ==
    prog = "main" =>
        /\ command # "none" => OnlyCommandResponse
        /\ ReminderCalls # <<>> => command = "none"
        /\ command # "none" =>
              /\ CommandPending
              /\ \A q \in 1..Len(log) : log[q] # "command_check_failed"

\* A command run returned after its response although a record's birthday
\* is 7, 1 or 0 days away.
C13_Witness ==
    /\ prog = "main" /\ command # "none" /\ outcome = "returned"
    /\ calls # <<>>
    /\ \E k \in 1..Len(birthdays) :
          /\ NextBirthday(birthdays[k].bday, today).ok
          /\ DeltaDays(NextBirthday(birthdays[k].bday, today).date, today) \in {7, 1, 0}

=============================================================================
